---- MODULE Spec2Model ----
(***************************************************************************)
(* Backup / restore pipeline of remnawave-iac                               *)
(* (configuration/roles/backup/files): the archive codec (tar + gpg), the   *)
(* retention sweeper, the two datastore adapters, the Telegram sink and the *)
(* controller (run_backup / run_restore).                                   *)
(*                                                                          *)
(* File names are sequences of one-character strings, so that formatting a  *)
(* date into a name, splitting a name on "." and parsing a date back are    *)
(* computed as the code computes them.  External tools (tar, gpg, docker,   *)
(* the HTTP upload) are modelled by their exit status: "ok", "nonzero"      *)
(* (subprocess.CalledProcessError under check=True) or "oserror" (the       *)
(* process could not be started, subprocess.run raises OSError).  A tool    *)
(* that exits non-zero has written no output file.                          *)
(***************************************************************************)
EXTENDS Integers, Sequences, FiniteSets, TLC

VARIABLES fs, sqlite, pg, now, last, ops, conc

vars == <<fs, sqlite, pg, now, last, ops, conc>>

(***************************************************************************)
(* Bounds                                                                   *)
(***************************************************************************)
MaxDays == 3
TicksPerDay == 2
MaxAdvance == 1
\* writes to the bot's database while two backup runs are under way
MaxWrites == 1

(***************************************************************************)
(* Text                                                                     *)
(***************************************************************************)
Digits == <<"0", "1", "2", "3", "4", "5", "6", "7", "8", "9">>

DigitChar(n) == Digits[n + 1]

IsDigit(c) == \E i \in 1..10 : Digits[i] = c

DigitVal(c) == (CHOOSE i \in 1..10 : Digits[i] = c) - 1

S_dash == <<"-">>
S_panel == <<"p", "a", "n", "e", "l">>
S_krisa_bot == <<"k", "r", "i", "s", "a", "-", "b", "o", "t">>
S_tar_gz == <<".", "t", "a", "r", ".", "g", "z">>
S_tar_gz_gpg == <<".", "t", "a", "r", ".", "g", "z", ".", "g", "p", "g">>
S_gpg == <<".", "g", "p", "g">>
S_dump == <<".", "d", "u", "m", "p">>
S_db == <<".", "d", "b">>
S_sqlite_backup == <<"s", "q", "l", "i", "t", "e", "-", "b", "a", "c", "k", "u", "p", "-">>
S_postgres_backup == <<"p", "o", "s", "t", "g", "r", "e", "s", "-", "b", "a", "c", "k", "u", "p", "-">>
S_notadate == <<"n", "o", "t", "a", "d", "a", "t", "e">>
S_data == <<"d", "a", "t", "a">>

StartsWith(s, p) == Len(s) >= Len(p) /\ SubSeq(s, 1, Len(p)) = p

EndsWith(s, p) == Len(s) >= Len(p) /\ SubSeq(s, Len(s) - Len(p) + 1, Len(s)) = p

\* str.split(sep)[0]: the text before the first separator (all of it if none)
SplitFirst(s, sep) ==
    IF \E i \in 1..Len(s) : s[i] = sep
    THEN LET i == CHOOSE k \in 1..Len(s) : s[k] = sep /\ \A j \in 1..(k - 1) : s[j] # sep
         IN  SubSeq(s, 1, i - 1)
    ELSE s

\* positions of the separator in s
SepPositions(s, sep) == {i \in 1..Len(s) : s[i] = sep}

\* PurePath.suffix: the text from the last "." on, empty when the name has no
\* "." after its first character or ends with "."
Suffix(name) ==
    LET dots == {i \in 2..Len(name) : name[i] = "."}
    IN  IF dots = {} THEN <<>>
        ELSE LET i == CHOOSE k \in dots : \A j \in dots : j <= k
             IN  IF i = Len(name) THEN <<>> ELSE SubSeq(name, i, Len(name))

\* PurePath.with_suffix(''): the name without its suffix
WithoutSuffix(name) == SubSeq(name, 1, Len(name) - Len(Suffix(name)))

(***************************************************************************)
(* Calendar: datetime's proleptic Gregorian calendar, days counted from     *)
(* 1970-01-01                                                               *)
(***************************************************************************)
IsLeap(y) == (y % 4 = 0 /\ y % 100 # 0) \/ y % 400 = 0

DaysInMonth(y, m) ==
    IF m = 2 THEN (IF IsLeap(y) THEN 29 ELSE 28)
    ELSE IF m \in {4, 6, 9, 11} THEN 30 ELSE 31

DaysFromCivil(y, m, d) ==
    LET yy == IF m <= 2 THEN y - 1 ELSE y
        era == yy \div 400
        yoe == yy - era * 400
        mp == IF m > 2 THEN m - 3 ELSE m + 9
        doy == (153 * mp + 2) \div 5 + d - 1
        doe == yoe * 365 + yoe \div 4 - yoe \div 100 + doy
    IN  era * 146097 + doe - 719468

CivilFromDays(z) ==
    LET zz == z + 719468
        era == zz \div 146097
        doe == zz - era * 146097
        yoe == (doe - doe \div 1460 + doe \div 36524 - doe \div 146096) \div 365
        doy == doe - (365 * yoe + yoe \div 4 - yoe \div 100)
        mp == (5 * doy + 2) \div 153
        d == doy - (153 * mp + 2) \div 5 + 1
        m == IF mp < 10 THEN mp + 3 ELSE mp - 9
        y == yoe + era * 400 + (IF m <= 2 THEN 1 ELSE 0)
    IN  [y |-> y, m |-> m, d |-> d]

TwoDigits(n) == <<DigitChar(n \div 10), DigitChar(n % 10)>>

\* datetime.strftime("%d-%m-%y") of the date part of a clock value
Strftime(t) ==
    LET c == CivilFromDays(t.day)
    IN  TwoDigits(c.d) \o S_dash \o TwoDigits(c.m) \o S_dash \o TwoDigits(c.y % 100)

NoDate == [ok |-> FALSE, day |-> 0, tod |-> 0]

\* one numeric field of the format: the alternatives of _strptime's regex
DayField(f) ==
    \/ Len(f) = 2 /\ f[1] = "3" /\ f[2] \in {"0", "1"}
    \/ Len(f) = 2 /\ f[1] \in {"1", "2"} /\ IsDigit(f[2])
    \/ Len(f) = 2 /\ f[1] = "0" /\ IsDigit(f[2]) /\ f[2] # "0"
    \/ Len(f) = 1 /\ IsDigit(f[1]) /\ f[1] # "0"
    \/ Len(f) = 2 /\ f[1] = " " /\ IsDigit(f[2]) /\ f[2] # "0"

MonthField(f) ==
    \/ Len(f) = 2 /\ f[1] = "1" /\ f[2] \in {"0", "1", "2"}
    \/ Len(f) = 2 /\ f[1] = "0" /\ IsDigit(f[2]) /\ f[2] # "0"
    \/ Len(f) = 1 /\ IsDigit(f[1]) /\ f[1] # "0"

YearField(f) == Len(f) = 2 /\ IsDigit(f[1]) /\ IsDigit(f[2])

FieldVal(f) ==
    IF Len(f) = 1 THEN DigitVal(f[1])
    ELSE IF f[1] = " " THEN DigitVal(f[2])
    ELSE 10 * DigitVal(f[1]) + DigitVal(f[2])

\* datetime.strptime(s, "%d-%m-%y"): [ok |-> FALSE] stands for ValueError
Strptime(s) ==
    LET seps == SepPositions(s, "-")
    IN  IF Cardinality(seps) # 2 THEN NoDate
        ELSE LET i == CHOOSE k \in seps : \A j \in seps : k <= j
                 j == CHOOSE k \in seps : k # i
                 fd == SubSeq(s, 1, i - 1)
                 fm == SubSeq(s, i + 1, j - 1)
                 fy == SubSeq(s, j + 1, Len(s))
             IN  IF ~(DayField(fd) /\ MonthField(fm) /\ YearField(fy)) THEN NoDate
                 ELSE LET yy == FieldVal(fy)
                          y == IF yy < 69 THEN 2000 + yy ELSE 1900 + yy
                          m == FieldVal(fm)
                          d == FieldVal(fd)
                      IN  IF d > DaysInMonth(y, m) THEN NoDate
                          ELSE [ok |-> TRUE, day |-> DaysFromCivil(y, m, d), tod |-> 0]

\* datetime < datetime
Before(a, b) == a.day < b.day \/ (a.day = b.day /\ a.tod < b.tod)

\* datetime - timedelta(days = n)
MinusDays(t, n) == [day |-> t.day - n, tod |-> t.tod]

FirstDay == DaysFromCivil(2025, 12, 30)

Clock == [day : FirstDay..(FirstDay + MaxDays), tod : 0..(TicksPerDay - 1)]

Ticks(t) == (t.day - FirstDay) * TicksPerDay + t.tod

\* the clock values a later datetime.now() may return
Later(t) == {u \in Clock : Ticks(u) >= Ticks(t) /\ Ticks(u) <= Ticks(t) + MaxAdvance}

(***************************************************************************)
(* Paths and the filesystem.  A path is a sequence of names; the only       *)
(* directory is BACKUPS_DIR and fs maps the names of the regular files in   *)
(* it to their contents.                                                    *)
(***************************************************************************)
BACKUPS_DIR == <<S_data>>

Child(dir, name) == Append(dir, name)

Parent(p) == SubSeq(p, 1, Len(p) - 1)

Name(p) == p[Len(p)]

None == <<>>

IsDir(f, p) == p = BACKUPS_DIR

IsFile(f, p) == Len(p) = 2 /\ Parent(p) = BACKUPS_DIR /\ Name(p) \in DOMAIN f

Exists(f, p) == IsDir(f, p) \/ IsFile(f, p)

FsPut(f, p, c) == [n \in DOMAIN f \cup {Name(p)} |-> IF n = Name(p) THEN c ELSE f[n]]

FsDel(f, p) == [n \in DOMAIN f \ {Name(p)} |-> f[n]]

\* a name of the directory itself, not of a file below a subdirectory of it
\* (such a file is named by its relative path, "sub/name")
IsDirect(n) == \A i \in 1..Len(n) : n[i] # "/"

\* Path.name of a relative path: what follows its last "/"
BaseName(n) ==
    LET seps == {i \in 1..Len(n) : n[i] = "/"}
    IN  IF seps = {} THEN n
        ELSE SubSeq(n, (CHOOSE i \in seps : \A j \in seps : j <= i) + 1, Len(n))

\* Path.glob("*<suffix>"): the entries of a directory whose name ends with the
\* suffix ("*" does not cross "/"); nothing when the path is not a directory
Glob(f, p, suffix) ==
    IF IsDir(f, p)
    THEN {Child(p, n) : n \in {m \in DOMAIN f : IsDirect(m) /\ EndsWith(m, suffix)}}
    ELSE {}

\* Path.glob("<prefix>*<suffix>")
GlobBoth(f, p, prefix, suffix) ==
    IF IsDir(f, p)
    THEN {Child(p, n) : n \in {m \in DOMAIN f :
              /\ IsDirect(m)
              /\ Len(m) >= Len(prefix) + Len(suffix) /\ StartsWith(m, prefix) /\ EndsWith(m, suffix)}}
    ELSE {}

(***************************************************************************)
(* File contents: a dump (payload v), a compressed container holding one    *)
(* member, or an encrypted container (the key it was encrypted under and    *)
(* the container inside; member <<>> is an encrypted payload that is not a  *)
(* tar container).                                                          *)
(***************************************************************************)
Data(v) == [kind |-> "data", key |-> <<>>, member |-> <<>>, v |-> v]

TarOf(member, c) == [kind |-> "tar", key |-> <<>>, member |-> member, v |-> c.v]

GpgOf(key, c) ==
    [kind |-> "gpg", key |-> key, member |-> IF c.kind = "tar" THEN c.member ELSE <<>>, v |-> c.v]

GpgPlain(c) ==
    [kind |-> IF c.member = <<>> THEN "data" ELSE "tar", key |-> <<>>, member |-> c.member, v |-> c.v]

(***************************************************************************)
(* External commands.  The world w carries the filesystem, the two          *)
(* datastores, the clock and the trace of calls made so far.                *)
(***************************************************************************)
\* trace entries: an external command with its variable arguments, its standard
\* input and its exit status; the entry into a function; the return from one
ExtCall(tool, argv, stdin) ==
    [ext |-> TRUE, tool |-> tool, argv |-> argv, stdin |-> stdin, status |-> "ok"]

FnCall(fn) == [ext |-> FALSE, tool |-> fn, argv |-> <<>>, stdin |-> <<>>, status |-> "enter"]

FnRet(fn, status) == [ext |-> FALSE, tool |-> fn, argv |-> <<>>, stdin |-> <<>>, status |-> status]

Logged(w, call) == [w EXCEPT !.calls = Append(@, call)]

\* a logger.error / logger.info record
Log(w, msg) == [w EXCEPT !.log = Append(@, msg)]

\* subprocess.run: the command cannot be started, exits non-zero, or (when
\* its inputs allow it) exits zero having had its effect
Exec(w, call, feasible, wOk) ==
    {[w |-> Logged(w, [call EXCEPT !.status = "oserror"]), status |-> "oserror"],
     [w |-> Logged(w, [call EXCEPT !.status = "nonzero"]), status |-> "nonzero"]}
    \cup (IF feasible THEN {[w |-> Logged(wOk, call), status |-> "ok"]} ELSE {})

\* datetime.now(): the clock may have advanced since it was last read
ReadClock(w) == {[w EXCEPT !.now = t] : t \in Later(w.now)}

Result(w, ret, exc) == [w |-> w, ret |-> ret, exc |-> exc]

\* the results of a function, each with its return entered in the trace:
\* "raised", "none" (None or False returned) or "value"
RetPath(fn, results) ==
    {[r EXCEPT !.w = Logged(r.w, FnRet(fn, IF r.exc # "none" THEN "raised"
                                           ELSE IF r.ret = None THEN "none" ELSE "value"))] :
        r \in results}

RetBool(fn, results) ==
    {[r EXCEPT !.w = Logged(r.w, FnRet(fn, IF r.exc # "none" THEN "raised"
                                           ELSE IF r.ret THEN "value" ELSE "none"))] :
        r \in results}

RetInt(fn, results) ==
    {[r EXCEPT !.w = Logged(r.w, FnRet(fn, IF r.exc # "none" THEN "raised" ELSE "value"))] :
        r \in results}

(***************************************************************************)
(* archive.py                                                               *)
(***************************************************************************)
ArchiveName(prefix, date_str) == prefix \o S_dash \o date_str \o S_tar_gz

EncryptedName(prefix, date_str) == prefix \o S_dash \o date_str \o S_tar_gz_gpg

\* variant: the dump file is not unlinked
EncryptFinishKeepDump(w, archive_path, dump_file, encrypted_path) ==
    IF ~IsFile(w.fs, archive_path) THEN Result(w, None, "FileNotFoundError")
    ELSE Result([w EXCEPT !.fs = FsDel(@, archive_path)], encrypted_path, "none")

\* the two unlinks after a successful gpg run, then the return
EncryptFinish(w, archive_path, dump_file, encrypted_path) ==
    IF ~IsFile(w.fs, archive_path) THEN Result(w, None, "FileNotFoundError")
    ELSE LET w1 == [w EXCEPT !.fs = FsDel(@, archive_path)]
         IN  IF ~IsFile(w1.fs, dump_file) THEN Result(w1, None, "FileNotFoundError")
             ELSE Result([w1 EXCEPT !.fs = FsDel(@, dump_file)], encrypted_path, "none")

\* variant: the dump file is unlinked whether or not gpg succeeded
EncryptGpgUnlinkAlways(w, archive_path, dump_file, encrypted_path, password) ==
    LET feasible == IsFile(w.fs, archive_path)
        wOk == IF feasible
               THEN [w EXCEPT !.fs = FsPut(@, encrypted_path, GpgOf(password, w.fs[Name(archive_path)]))]
               ELSE w
    IN  {IF r.status = "oserror" THEN Result(r.w, None, "OSError")
         ELSE IF r.status = "nonzero"
              THEN Result(Log([r.w EXCEPT !.fs = FsDel(@, dump_file)], "error: archive creation failed"),
                          None, "none")
         ELSE EncryptFinish(r.w, archive_path, dump_file, encrypted_path) :
            r \in Exec(w, ExtCall("gpg-c", <<Name(encrypted_path), Name(archive_path)>>, password),
                       feasible, wOk)}

\* variant: the passphrase is handed to gpg as an argument (--passphrase)
EncryptGpgPassArg(w, archive_path, dump_file, encrypted_path, password) ==
    LET feasible == IsFile(w.fs, archive_path)
        wOk == IF feasible
               THEN [w EXCEPT !.fs = FsPut(@, encrypted_path, GpgOf(password, w.fs[Name(archive_path)]))]
               ELSE w
    IN  {IF r.status = "oserror" THEN Result(r.w, None, "OSError")
         ELSE IF r.status = "nonzero"
              THEN Result(Log(r.w, "error: archive creation failed"), None, "none")
         ELSE EncryptFinish(r.w, archive_path, dump_file, encrypted_path) :
            r \in Exec(w, ExtCall("gpg-c", <<password, Name(encrypted_path), Name(archive_path)>>, <<>>),
                       feasible, wOk)}

EncryptGpg(w, archive_path, dump_file, encrypted_path, password) ==
    LET feasible == IsFile(w.fs, archive_path)
        wOk == IF feasible
               THEN [w EXCEPT !.fs = FsPut(@, encrypted_path, GpgOf(password, w.fs[Name(archive_path)]))]
               ELSE w
    IN  {IF r.status = "oserror" THEN Result(r.w, None, "OSError")
         ELSE IF r.status = "nonzero"
              THEN Result(Log(r.w, "error: archive creation failed"), None, "none")
         ELSE EncryptFinish(r.w, archive_path, dump_file, encrypted_path) :
            r \in Exec(w, ExtCall("gpg-c", <<Name(encrypted_path), Name(archive_path)>>, password),
                       feasible, wOk)}

create_encrypted_archive(w0, dump_file, password, prefix) ==
    RetPath("create_encrypted_archive", UNION {
      LET date_str == Strftime(w.now)
          output_dir == Parent(dump_file)
          archive_path == Child(output_dir, ArchiveName(prefix, date_str))
          encrypted_path == Child(output_dir, EncryptedName(prefix, date_str))
          feasible == IsFile(w.fs, dump_file)
          wOk == IF feasible
                 THEN [w EXCEPT !.fs = FsPut(@, archive_path, TarOf(Name(dump_file), w.fs[Name(dump_file)]))]
                 ELSE w
      IN  UNION {
            IF r.status = "oserror" THEN {Result(r.w, None, "OSError")}
            ELSE IF r.status = "nonzero"
                 THEN {Result(Log(r.w, "error: archive creation failed"), None, "none")}
            ELSE EncryptGpg(r.w, archive_path, dump_file, encrypted_path, password) :
              r \in Exec(w, ExtCall("tar-c", <<Name(archive_path), Name(dump_file)>>, <<>>),
                         feasible, wOk)}
      : w \in ReadClock(Logged(w0, FnCall("create_encrypted_archive")))})

\* variant: None is returned when no dump file is found
DecryptFinishSilent(w, tar_path, extract_dir) ==
    LET w1 == [w EXCEPT !.fs = FsDel(@, tar_path)]
        dumps == Glob(w1.fs, extract_dir, S_dump)
        dbs == Glob(w1.fs, extract_dir, S_db)
    IN  IF dumps \cup dbs = {} THEN {Result(w1, None, "none")}
        ELSE {Result(w1, f, "none") : f \in (IF dumps # {} THEN dumps ELSE dbs)}

\* lines 90-97: unlink the container, then look for the dump file
DecryptFinish(w, tar_path, extract_dir) ==
    LET w1 == [w EXCEPT !.fs = FsDel(@, tar_path)]
        dumps == Glob(w1.fs, extract_dir, S_dump)
        dbs == Glob(w1.fs, extract_dir, S_db)
    IN  IF dumps \cup dbs = {} THEN {Result(w1, None, "FileNotFoundError")}
        ELSE {Result(w1, f, "none") : f \in (IF dumps # {} THEN dumps ELSE dbs)}

DecryptTar(w, tar_path, extract_dir) ==
    LET c == w.fs[Name(tar_path)]
        feasible == c.kind = "tar"
        wOk == IF feasible
               THEN [w EXCEPT !.fs = FsPut(@, Child(extract_dir, c.member), Data(c.v))]
               ELSE w
    IN  UNION {
          IF r.status = "oserror" THEN {Result(r.w, None, "OSError")}
          ELSE IF r.status = "nonzero" THEN {Result(r.w, None, "CalledProcessError")}
          ELSE DecryptFinish(r.w, tar_path, extract_dir) :
            r \in Exec(w, ExtCall("tar-x", <<Name(tar_path)>>, <<>>), feasible, wOk)}

\* variant: the handler of lines 99-101 logs the gpg failure and does not re-raise
decrypt_archive_noraise(w0, encrypted_path, password) ==
    RetPath("decrypt_archive",
    LET w == Logged(w0, FnCall("decrypt_archive"))
    IN  IF ~Exists(w.fs, encrypted_path) THEN {Result(w, None, "FileNotFoundError")}
        ELSE IF IsDir(w.fs, encrypted_path) \/ Suffix(Name(encrypted_path)) # S_gpg
             THEN {Result(w, None, "ValueError")}
        ELSE LET tar_path == Child(Parent(encrypted_path), WithoutSuffix(Name(encrypted_path)))
                 extract_dir == Parent(encrypted_path)
                 c == w.fs[Name(encrypted_path)]
                 feasible == c.kind = "gpg" /\ c.key = password
                 wOk == IF feasible THEN [w EXCEPT !.fs = FsPut(@, tar_path, GpgPlain(c))] ELSE w
             IN  UNION {
                   IF r.status = "oserror" THEN {Result(r.w, None, "OSError")}
                   ELSE IF r.status = "nonzero" THEN {Result(r.w, None, "none")}
                   ELSE DecryptTar(r.w, tar_path, extract_dir) :
                     r \in Exec(w, ExtCall("gpg-d", <<Name(tar_path), Name(encrypted_path)>>, password),
                                feasible, wOk)})

decrypt_archive(w0, encrypted_path, password) ==
    RetPath("decrypt_archive",
    LET w == Logged(w0, FnCall("decrypt_archive"))
    IN  IF ~Exists(w.fs, encrypted_path) THEN {Result(w, None, "FileNotFoundError")}
        ELSE IF IsDir(w.fs, encrypted_path) \/ Suffix(Name(encrypted_path)) # S_gpg
             THEN {Result(w, None, "ValueError")}
        ELSE LET tar_path == Child(Parent(encrypted_path), WithoutSuffix(Name(encrypted_path)))
                 extract_dir == Parent(encrypted_path)
                 c == w.fs[Name(encrypted_path)]
                 feasible == c.kind = "gpg" /\ c.key = password
                 wOk == IF feasible THEN [w EXCEPT !.fs = FsPut(@, tar_path, GpgPlain(c))] ELSE w
             IN  UNION {
                   IF r.status = "oserror" THEN {Result(r.w, None, "OSError")}
                   ELSE IF r.status = "nonzero" THEN {Result(r.w, None, "CalledProcessError")}
                   ELSE DecryptTar(r.w, tar_path, extract_dir) :
                     r \in Exec(w, ExtCall("gpg-d", <<Name(tar_path), Name(encrypted_path)>>, password),
                                feasible, wOk)})

(***************************************************************************)
(* cleanup.py                                                               *)
(***************************************************************************)
\* variant: a name that does not parse ends the loop before anything is unlinked
ExpiredStopAtUnparsed(f, backups_dir, cutoff_date) ==
    IF \E g \in Glob(f, backups_dir, S_tar_gz_gpg) : ~Strptime(SplitFirst(Name(g), ".")).ok
    THEN {}
    ELSE {g \in Glob(f, backups_dir, S_tar_gz_gpg) :
            Before(Strptime(SplitFirst(Name(g), ".")), cutoff_date)}

\* variant: the pattern is matched below subdirectories too (rglob)
ExpiredRecursive(f, backups_dir, cutoff_date) ==
    {Child(backups_dir, n) : n \in {m \in DOMAIN f :
        /\ EndsWith(m, S_tar_gz_gpg)
        /\ Strptime(SplitFirst(BaseName(m), ".")).ok
        /\ Before(Strptime(SplitFirst(BaseName(m), ".")), cutoff_date)}}

\* the files the loop of lines 19-30 unlinks, given the cutoff
Expired(f, backups_dir, cutoff_date) ==
    {g \in Glob(f, backups_dir, S_tar_gz_gpg) :
        LET file_date == Strptime(SplitFirst(Name(g), "."))
        IN  file_date.ok /\ Before(file_date, cutoff_date)}

RECURSIVE FsDelAll(_, _)
FsDelAll(f, ps) ==
    IF ps = {} THEN f
    ELSE LET p == CHOOSE q \in ps : TRUE IN FsDelAll(FsDel(f, p), ps \ {p})

\* variant: only a negative retention disables the sweep
cleanup_old_backups_zero(w0, backups_dir, retention_days) ==
    RetInt("cleanup_old_backups",
    LET wl == Logged(w0, FnCall("cleanup_old_backups"))
    IN  IF retention_days < 0 THEN {Result(wl, 0, "none")}
        ELSE {LET cutoff_date == MinusDays(w.now, retention_days)
                  gone == Expired(w.fs, backups_dir, cutoff_date)
              IN  Result([w EXCEPT !.fs = FsDelAll(@, gone)], Cardinality(gone), "none")
              : w \in ReadClock(wl)})

cleanup_old_backups(w0, backups_dir, retention_days) ==
    RetInt("cleanup_old_backups",
    LET wl == Logged(w0, FnCall("cleanup_old_backups"))
    IN  IF retention_days <= 0 THEN {Result(wl, 0, "none")}
        ELSE {LET cutoff_date == MinusDays(w.now, retention_days)
                  gone == Expired(w.fs, backups_dir, cutoff_date)
              IN  Result([w EXCEPT !.fs = FsDelAll(@, gone)], Cardinality(gone), "none")
              : w \in ReadClock(wl)})

(***************************************************************************)
(* sqlite.py: the bot's database lives in a container; tmp_backup and       *)
(* tmp_restore are /tmp/sqlite_backup.db and /tmp/sqlite_restore.db there   *)
(***************************************************************************)
Absent == -1
Partial == -2

backup_sqlite(w0, backup_dir, date_str) ==
    RetPath("backup_sqlite",
    LET w == Logged(w0, FnCall("backup_sqlite"))
        backup_file == Child(backup_dir, S_sqlite_backup \o date_str \o S_db)
        wBak == [w EXCEPT !.sqlite.tmp_backup = w.sqlite.live]
    IN  UNION {
          IF r.status = "oserror" THEN {Result(r.w, None, "OSError")}
          ELSE IF r.status = "nonzero" THEN {Result(r.w, None, "none")}
          ELSE {IF q.status = "oserror" THEN Result(q.w, None, "OSError")
                ELSE IF q.status = "nonzero" THEN Result(q.w, None, "none")
                ELSE Result(q.w, backup_file, "none") :
                  q \in Exec(r.w, ExtCall("docker-cp-out", <<Name(backup_file)>>, <<>>),
                             r.w.sqlite.tmp_backup # Absent,
                             [r.w EXCEPT !.fs = FsPut(@, backup_file, Data(r.w.sqlite.tmp_backup))])} :
            r \in Exec(w, ExtCall("docker-exec-sqlite3-backup", <<>>, <<>>), TRUE, wBak)})

\* lines 46-67, for the backup file the glob listed first
RestoreSqliteFile(w, backup_file) ==
    LET wCp == [w EXCEPT !.sqlite.tmp_restore = w.fs[Name(backup_file)].v]
    IN  UNION {
          IF r.status = "oserror" THEN {Result(r.w, FALSE, "OSError")}
          ELSE IF r.status = "nonzero" THEN {Result(r.w, FALSE, "none")}
          ELSE {IF q.status = "oserror" THEN Result(q.w, FALSE, "OSError")
                ELSE IF q.status = "nonzero" THEN Result(q.w, FALSE, "none")
                ELSE Result(q.w, TRUE, "none") :
                  q \in Exec(r.w, ExtCall("docker-exec-mv", <<>>, <<>>),
                             r.w.sqlite.tmp_restore # Absent,
                             [r.w EXCEPT !.sqlite.live = r.w.sqlite.tmp_restore,
                                         !.sqlite.tmp_restore = Absent])} :
            r \in Exec(w, ExtCall("docker-cp-in", <<Name(backup_file)>>, <<>>), TRUE, wCp)}

restore_sqlite(w0, backup_dir) ==
    RetBool("restore_sqlite",
    LET w == Logged(w0, FnCall("restore_sqlite"))
        sqlite_files == GlobBoth(w.fs, backup_dir, S_sqlite_backup, S_db)
    IN  IF sqlite_files = {} THEN {Result(w, FALSE, "none")}
        ELSE UNION {RestoreSqliteFile(w, backup_file) : backup_file \in sqlite_files})

(***************************************************************************)
(* postgres.py                                                              *)
(***************************************************************************)
backup_postgres(w0, backup_dir, date_str) ==
    RetPath("backup_postgres",
    LET wl == Logged(w0, FnCall("backup_postgres"))
        backup_file == Child(backup_dir, S_postgres_backup \o date_str \o S_dump)
        \* open(backup_file, "wb") creates or truncates the file
        w == [wl EXCEPT !.fs = FsPut(@, backup_file, Data(0))]
    IN  {IF r.status = "oserror" THEN Result(r.w, None, "OSError")
         ELSE IF r.status = "nonzero" THEN Result(r.w, None, "none")
         ELSE Result(r.w, backup_file, "none") :
           r \in Exec(w, ExtCall("docker-exec-pg_dump", <<>>, <<>>), TRUE,
                      [w EXCEPT !.fs = FsPut(@, backup_file, Data(w.pg.data))])})

\* the lines pg_restore may write to stderr when it exits non-zero
StderrLines == {"ERROR: already exists", "ERROR: does not exist", "ERROR: other", "WARNING"}

HasERROR(stderr) == stderr \cap {"ERROR: already exists", "ERROR: does not exist", "ERROR: other"} # {}

HasAlreadyExists(stderr) == "ERROR: already exists" \in stderr

HasDoesNotExist(stderr) == "ERROR: does not exist" \in stderr

\* lines 78-86: the verdict on a non-zero pg_restore
RestoreTolerated(stderr) ==
    ~(HasERROR(stderr) /\ ~HasAlreadyExists(stderr) /\ ~HasDoesNotExist(stderr))

\* lines 75-86
RestorePgReplay(w, dump_file) ==
    LET v == w.fs[Name(dump_file)].v
    IN  UNION {
          IF r.status = "oserror" THEN {Result(r.w, FALSE, "OSError")}
          ELSE IF r.status = "ok" THEN {Result(r.w, TRUE, "none")}
          ELSE {Result([r.w EXCEPT !.pg.data = IF "ERROR: other" \in stderr THEN Partial ELSE v,
                                   !.locals.stderr = stderr],
                       RestoreTolerated(stderr), "none") : stderr \in SUBSET StderrLines} :
            r \in Exec(w, ExtCall("docker-exec-pg_restore", <<>>, <<>>), TRUE,
                       [w EXCEPT !.pg.data = v])}

\* variant: the return code of the schema wipe is not looked at
RestorePgWipeUnchecked(w, dump_file) ==
    UNION {
      IF r.status = "oserror" THEN {Result(r.w, FALSE, "OSError")}
      ELSE RestorePgReplay(r.w, dump_file) :
        r \in Exec(w, ExtCall("docker-exec-psql-drop-schema", <<>>, <<>>), TRUE,
                   [w EXCEPT !.pg.data = 0])}

\* lines 68-73
RestorePgWipe(w, dump_file) ==
    UNION {
      IF r.status = "oserror" THEN {Result(r.w, FALSE, "OSError")}
      ELSE IF r.status = "nonzero" THEN {Result(r.w, FALSE, "none")}
      ELSE RestorePgReplay(r.w, dump_file) :
        r \in Exec(w, ExtCall("docker-exec-psql-drop-schema", <<>>, <<>>), TRUE,
                   [w EXCEPT !.pg.data = 0])}

restore_postgres(w0, dump_file) ==
    RetBool("restore_postgres",
    LET w == Logged(w0, FnCall("restore_postgres"))
    IN  IF ~Exists(w.fs, dump_file) THEN {Result(w, FALSE, "none")}
        ELSE UNION {
               IF r.status = "oserror" THEN {Result(r.w, FALSE, "OSError")}
               ELSE RestorePgWipe(r.w, dump_file) :
                 r \in Exec(w, ExtCall("docker-exec-psql-terminate", <<>>, <<>>), TRUE,
                            [w EXCEPT !.pg.sessions = FALSE])})

(***************************************************************************)
(* telegram.py                                                              *)
(***************************************************************************)
\* requests.post: a 2xx response, another response, a RequestException, or an
\* exception that is not a RequestException (the file cannot be read)
PostStatus == {"ok", "http_error", "request_exception", "oserror"}

send_document(w0, token, chat_id, file_path, caption) ==
    RetBool("send_document",
    LET w == Logged(w0, FnCall("send_document"))
    IN  IF ~IsFile(w.fs, file_path) THEN {Result(w, FALSE, "FileNotFoundError")}
        ELSE {LET call == ExtCall("http-post-sendDocument", <<Name(file_path), caption>>, <<>>)
                  wp == Logged(w, [call EXCEPT !.status = s])
              IN  IF s = "oserror" THEN Result(wp, FALSE, "OSError")
                  ELSE IF s = "ok" THEN Result(wp, TRUE, "none")
                  ELSE IF s = "http_error" THEN Result(Log(wp, "error: telegram api error"), FALSE, "none")
                  ELSE Result(Log(wp, "error: failed to send to telegram"), FALSE, "none") :
                s \in PostStatus})

(***************************************************************************)
(* cli.py                                                                   *)
(***************************************************************************)
\* os.environ.get of a variable that is not set
Unset == <<"None">>

\* Python truth value of an environment value
Truthy(x) == x # Unset /\ x # <<>>

\* int(text): [ok |-> FALSE] stands for ValueError
ParseInt(s) ==
    LET neg == Len(s) >= 1 /\ s[1] = "-"
        ds == IF neg THEN Tail(s) ELSE s
    IN  IF Len(ds) = 0 \/ Len(ds) > 2 \/ \E i \in 1..Len(ds) : ~IsDigit(ds[i])
        THEN [ok |-> FALSE, v |-> 0]
        ELSE LET n == IF Len(ds) = 1 THEN DigitVal(ds[1])
                      ELSE 10 * DigitVal(ds[1]) + DigitVal(ds[2])
             IN  [ok |-> TRUE, v |-> IF neg THEN 0 - n ELSE n]

S_7 == <<"7">>

\* int(os.environ.get('BACKUP_RETENTION_DAYS', '7'))
RetentionDays(environ) ==
    ParseInt(IF environ.BACKUP_RETENTION_DAYS = Unset THEN S_7 ELSE environ.BACKUP_RETENTION_DAYS)

BackupTypes == {S_panel, S_krisa_bot}

\* BACKUP_CONFIG[backup_type]['caption']
Caption(backup_type) == IF backup_type = S_panel THEN <<"Panel Backup">> ELSE <<"Krisa-Bot Backup">>

\* BACKUP_CONFIG[backup_type]['backup_func'](backup_dir, date_str)
backup_func(backup_type, w, backup_dir, date_str) ==
    IF backup_type = S_panel THEN backup_postgres(w, backup_dir, date_str)
    ELSE backup_sqlite(w, backup_dir, date_str)

\* BACKUP_CONFIG[backup_type]['restore_func'](dump_file)
restore_func(backup_type, w, dump_file) ==
    IF backup_type = S_panel THEN restore_postgres(w, dump_file)
    ELSE restore_sqlite(w, dump_file)


\* the local variables of run_backup / run_restore, and the stderr of
\* restore_postgres (postgres.py line 79), as last assigned
NoLocals == [date_str |-> <<>>, dump_file |-> None, archive_path |-> None, stderr |-> {}]

\* variant: the handler lets the exception go on to the caller
BackupCaughtReraise(r) == Result(r.w, None, r.exc)

\* except Exception of run_backup (lines 73-74)
BackupCaught(r) == Result(Log(r.w, "error: backup failed"), None, "none")

\* variant: the sweep runs before the notification
BackupDeliverSweepFirst(w, backup_type, environ, date_str, archive_path, retention_days) ==
    LET caption == Caption(backup_type) \o <<" ">> \o date_str
    IN  UNION {
          IF c.exc # "none" THEN {BackupCaught(c)}
          ELSE {IF n.exc # "none" THEN BackupCaught(n)
                ELSE Result(Log(n.w, "info: backup completed successfully"), None, "none") :
                  n \in send_document(c.w, environ.BOT_TOKEN, environ.ADMIN_ID, archive_path, caption)} :
            c \in cleanup_old_backups(w, BACKUPS_DIR, retention_days)}

\* lines 68-72, once the archive exists
BackupDeliver(w, backup_type, environ, date_str, archive_path, retention_days) ==
    LET caption == Caption(backup_type) \o <<" ">> \o date_str
    IN  UNION {
          IF s.exc # "none" THEN {BackupCaught(s)}
          ELSE {IF c.exc # "none" THEN BackupCaught(c)
                ELSE Result(Log(c.w, "info: backup completed successfully"), None, "none") :
                  c \in cleanup_old_backups(s.w, BACKUPS_DIR, retention_days)} :
            s \in send_document(w, environ.BOT_TOKEN, environ.ADMIN_ID, archive_path, caption)}

\* lines 66-72, once the dump exists
BackupArchive(w, backup_type, environ, date_str, dump_file, retention_days) ==
    UNION {
      IF a.exc # "none" THEN {BackupCaught(a)}
      ELSE IF a.ret = None THEN {Result(a.w, None, "none")}
      ELSE BackupDeliver([a.w EXCEPT !.locals.archive_path = a.ret],
                         backup_type, environ, date_str, a.ret, retention_days) :
        a \in create_encrypted_archive(w, dump_file, environ.BACKUP_PASSWORD, backup_type)}

\* variant: the sweep runs even when the dump was not created
BackupStagesSweepAlways(wl, backup_type, environ, retention_days) ==
    UNION {
      LET date_str == Strftime(w.now)
      IN  UNION {
            IF d.exc # "none" THEN {BackupCaught(d)}
            ELSE IF d.ret = None
                 THEN {Result(Log(c.w, "error: dump creation failed"), None, "none") :
                         c \in cleanup_old_backups(d.w, BACKUPS_DIR, retention_days)}
            ELSE BackupArchive([d.w EXCEPT !.locals.dump_file = d.ret],
                               backup_type, environ, date_str, d.ret, retention_days) :
              d \in backup_func(backup_type, [w EXCEPT !.locals.date_str = date_str],
                                BACKUPS_DIR, date_str)}
      : w \in ReadClock(wl)}

\* lines 56-74
BackupStages(wl, backup_type, environ, retention_days) ==
    UNION {
      LET date_str == Strftime(w.now)
      IN  UNION {
            IF d.exc # "none" THEN {BackupCaught(d)}
            ELSE IF d.ret = None
                 THEN {Result(Log(d.w, "error: dump creation failed"), None, "none")}
            ELSE BackupArchive([d.w EXCEPT !.locals.dump_file = d.ret],
                               backup_type, environ, date_str, d.ret, retention_days) :
              d \in backup_func(backup_type, [w EXCEPT !.locals.date_str = date_str],
                                BACKUPS_DIR, date_str)}
      : w \in ReadClock(wl)}

\* variant: the guard passes as soon as one of the three secrets is set
run_backup_any(w0, backup_type, environ) ==
    LET wl == Logged(w0, FnCall("run_backup"))
        retention == RetentionDays(environ)
    IN  IF ~retention.ok THEN {Result(wl, None, "ValueError")}
        ELSE IF ~(Truthy(environ.BOT_TOKEN) \/ Truthy(environ.ADMIN_ID) \/ Truthy(environ.BACKUP_PASSWORD))
             THEN {Result(Log(wl, "error: missing required env vars"), None, "none")}
        ELSE BackupStages(wl, backup_type, environ, retention.v)

run_backup(w0, backup_type, environ) ==
    LET wl == Logged(w0, FnCall("run_backup"))
        retention == RetentionDays(environ)
    IN  IF ~retention.ok THEN {Result(wl, None, "ValueError")}
        ELSE IF ~(Truthy(environ.BOT_TOKEN) /\ Truthy(environ.ADMIN_ID) /\ Truthy(environ.BACKUP_PASSWORD))
             THEN {Result(Log(wl, "error: missing required env vars"), None, "none")}
        ELSE BackupStages(wl, backup_type, environ, retention.v)

\* variant: the handler reports success
RestoreCaughtTrue(r) == Result(Log(r.w, "error: restore failed"), TRUE, "none")

\* except Exception of run_restore (lines 105-107)
RestoreCaught(r) == Result(Log(r.w, "error: restore failed"), FALSE, "none")

\* lines 99-104
RestoreCleanup(r, dump_file) ==
    IF IsFile(r.w.fs, dump_file)
    THEN Result(Log([r.w EXCEPT !.fs = FsDel(@, dump_file)], "info: cleaned up extracted dump file"),
                r.ret, "none")
    ELSE Result(r.w, r.ret, "none")

run_restore(w0, encrypted_path, backup_type, environ) ==
    LET wl == Logged(w0, FnCall("run_restore"))
    IN  IF ~Truthy(environ.BACKUP_PASSWORD)
        THEN {Result(Log(wl, "error: missing required env var"), FALSE, "none")}
        ELSE UNION {
               IF d.exc # "none" THEN {RestoreCaught(d)}
               ELSE {IF r.exc # "none" THEN RestoreCaught(r) ELSE RestoreCleanup(r, d.ret) :
                       r \in restore_func(backup_type, [d.w EXCEPT !.locals.dump_file = d.ret], d.ret)} :
                 d \in decrypt_archive(wl, encrypted_path, environ.BACKUP_PASSWORD)}

\* main, lines 129-135: the value of run_backup is not looked at; an exception
\* that leaves run_backup ends the interpreter with status 1
main_backup(r) == IF r.exc # "none" THEN 1 ELSE 0

\* variant: the exit status does not depend on what run_restore returned
main_restore_zero(r) == IF r.exc # "none" THEN 1 ELSE 0

\* main, lines 136-143: sys.exit(1) unless run_restore returned True
main_restore(r) == IF r.exc # "none" THEN 1 ELSE IF r.ret THEN 0 ELSE 1

(***************************************************************************)
(* Inputs                                                                   *)
(***************************************************************************)
K1 == <<"k", "1">>
K2 == <<"k", "2">>
Passwords == {K1, K2}

TOKEN == <<"t", "o", "k">>
ADMIN == <<"4", "2">>

NoEnviron ==
    [BOT_TOKEN |-> Unset, ADMIN_ID |-> Unset, BACKUP_PASSWORD |-> Unset, BACKUP_RETENTION_DAYS |-> Unset]

BackupEnvirons ==
    [BOT_TOKEN : {Unset, TOKEN}, ADMIN_ID : {Unset, ADMIN}, BACKUP_PASSWORD : {Unset, <<>>, K1, K2},
     BACKUP_RETENTION_DAYS : {Unset, <<"1">>, <<"x">>}]

RestoreEnvirons ==
    [BOT_TOKEN : {Unset}, ADMIN_ID : {Unset}, BACKUP_PASSWORD : {Unset, <<>>, K1, K2},
     BACKUP_RETENTION_DAYS : {Unset}]

Retentions == {-1, 0, 1, 2}

Day0 == [day |-> FirstDay, tod |-> 0]

DayBefore(n) == [day |-> FirstDay - n, tod |-> 0]

SqliteDump(t) == S_sqlite_backup \o Strftime(t) \o S_db

PostgresDump(t) == S_postgres_backup \o Strftime(t) \o S_dump

\* an artifact of the older layout, named by its date alone
Legacy(t) == Strftime(t) \o S_tar_gz_gpg

Foreign == S_notadate \o S_tar_gz_gpg

\* an old dated artifact in a subdirectory of the backup directory
Nested == <<"s", "u", "b", "/">> \o Legacy(DayBefore(2))

\* an encrypted file whose name ends in .gpg but not in .tar.gz.gpg
Detached == S_notadate \o S_gpg

\* the artifact an earlier backup under key k left behind
Artifact(prefix, t, k, member, v) ==
    EncryptedName(prefix, Strftime(t)) :> GpgOf(k, TarOf(member, Data(v)))

EmptyDir == [n \in {} |-> Data(0)]

\* directories the library functions are called on
LibDirs ==
    { SqliteDump(Day0) :> Data(1),
      SqliteDump(Day0) :> Data(1) @@ PostgresDump(DayBefore(1)) :> Data(2),
      PostgresDump(Day0) :> Data(2) @@ SqliteDump(DayBefore(1)) :> Data(3),
      SqliteDump(Day0) :> Data(1) @@ Artifact(S_krisa_bot, Day0, K2, SqliteDump(Day0), 3),
      PostgresDump(Day0) :> Data(2) @@ Legacy(Day0) :> GpgOf(K1, Data(4))
          @@ Legacy(DayBefore(1)) :> GpgOf(K1, Data(4)) @@ Legacy(DayBefore(2)) :> GpgOf(K1, Data(4))
          @@ Foreign :> GpgOf(K1, Data(4)) @@ Nested :> GpgOf(K1, Data(4)),
      SqliteDump(Day0) :> Data(1)
          @@ Detached :> GpgOf(K1, TarOf(SqliteDump(DayBefore(1)), Data(4))),
      Artifact(S_panel, Day0, K1, S_notadate, 4) }

\* directories a pipeline run starts from
RunDirs ==
    { EmptyDir,
      Artifact(S_krisa_bot, DayBefore(1), K1, SqliteDump(DayBefore(1)), 3),
      Artifact(S_panel, DayBefore(1), K1, PostgresDump(DayBefore(1)), 4),
      Artifact(S_krisa_bot, DayBefore(1), K1, SqliteDump(DayBefore(1)), 3)
          @@ PostgresDump(DayBefore(2)) :> Data(0),
      Artifact(S_panel, DayBefore(9), K1, PostgresDump(DayBefore(9)), 4)
          @@ Legacy(DayBefore(8)) :> GpgOf(K1, Data(4)) @@ Legacy(DayBefore(7)) :> GpgOf(K1, Data(4))
          @@ Foreign :> GpgOf(K1, Data(4)) }

Missing == Child(BACKUPS_DIR, <<"n", "o", "n", "e">> \o S_tar_gz_gpg)

Files(f) == {Child(BACKUPS_DIR, n) : n \in {m \in DOMAIN f : IsDirect(m)}}

\* a dump file path under which no file exists
MissingDump == Child(BACKUPS_DIR, PostgresDump(DayBefore(5)))

(***************************************************************************)
(* State machine.  last records the latest call: its arguments, what it     *)
(* returned or raised, the calls it made and the directory before it.       *)
(***************************************************************************)
World ==
    [fs |-> fs, sqlite |-> sqlite, pg |-> pg, now |-> now, calls |-> <<>>, log |-> <<>>,
     locals |-> NoLocals]

NoPrev ==
    [op |-> "none", path |-> None, password |-> <<>>, prefix |-> <<>>, ret |-> None,
     exc |-> "none", pre |-> EmptyDir, end |-> Day0]

NoCall ==
    [op |-> "none", path |-> None, password |-> <<>>, prefix |-> <<>>, retention |-> 0,
     environ |-> NoEnviron, ret |-> None, ok |-> FALSE, count |-> 0, exc |-> "none",
     calls |-> <<>>, log |-> <<>>, locals |-> NoLocals, pre |-> EmptyDir,
     predb |-> [sqlite |-> 0, pg |-> 0], start |-> Day0, end |-> Day0, prev |-> NoPrev,
     exit |-> 0]

\* two concurrent backup runs of the bot's database: where each run is
\* (pc), its local variables, and the run and content of the latest gpg write
Procs == {"A", "B"}

NoRun ==
    [pc |-> "init", date_str |-> <<>>, dump_file |-> None, archive_date |-> <<>>,
     archive_path |-> None, encrypted_path |-> None]

NoConc == [runs |-> [p \in Procs |-> NoRun], writer |-> "none", written |-> Data(0)]

Started(op) ==
    [NoCall EXCEPT !.op = op, !.pre = fs, !.predb = [sqlite |-> sqlite, pg |-> pg], !.start = now,
                   !.prev = [op |-> last.op, path |-> last.path, password |-> last.password,
                             prefix |-> last.prefix, ret |-> last.ret, exc |-> last.exc,
                             pre |-> last.pre, end |-> last.end]]

Commit(r, call) ==
    /\ fs' = r.w.fs
    /\ sqlite' = r.w.sqlite
    /\ pg' = r.w.pg
    /\ now' = r.w.now
    /\ last' = [call EXCEPT !.exc = r.exc, !.calls = r.w.calls, !.log = r.w.log,
                             !.locals = r.w.locals, !.end = r.w.now]
    /\ ops' = ops \cup {call.op}
    /\ conc' = conc

InitState ==
    /\ sqlite = [live |-> 1, tmp_backup |-> Absent, tmp_restore |-> Absent]
    /\ pg = [data |-> 2, sessions |-> TRUE]
    /\ now = Day0
    /\ last = NoCall
    /\ ops = {}
    /\ conc = NoConc

Tick ==
    /\ \E t \in Clock : Ticks(t) = Ticks(now) + 1 /\ now' = t
    /\ UNCHANGED <<fs, sqlite, pg, last, ops, conc>>

CallEncrypt ==
    /\ ops = {}
    /\ \E dump_file \in Glob(fs, BACKUPS_DIR, S_dump) \cup Glob(fs, BACKUPS_DIR, S_db) :
       \E password \in Passwords, prefix \in BackupTypes :
       \E r \in create_encrypted_archive(World, dump_file, password, prefix) :
          Commit(r, [Started("create_encrypted_archive") EXCEPT
                        !.path = dump_file, !.password = password, !.prefix = prefix, !.ret = r.ret])

CallDecrypt ==
    /\ ops \subseteq {"create_encrypted_archive"}
    /\ \E encrypted_path \in Files(fs) \cup {Missing} :
       \E password \in Passwords :
       \E r \in decrypt_archive(World, encrypted_path, password) :
          Commit(r, [Started("decrypt_archive") EXCEPT
                        !.path = encrypted_path, !.password = password, !.ret = r.ret])

CallCleanup ==
    /\ ops \subseteq {"create_encrypted_archive"}
    /\ \E retention_days \in Retentions :
       \E r \in cleanup_old_backups(World, BACKUPS_DIR, retention_days) :
          Commit(r, [Started("cleanup_old_backups") EXCEPT
                        !.path = BACKUPS_DIR, !.retention = retention_days, !.count = r.ret])

CallRestorePostgres ==
    /\ ops = {}
    /\ \E dump_file \in Glob(fs, BACKUPS_DIR, S_dump) \cup {MissingDump} :
       \E r \in restore_postgres(World, dump_file) :
          Commit(r, [Started("restore_postgres") EXCEPT !.path = dump_file, !.ok = r.ret])

RunBackup ==
    /\ ops = {}
    /\ \E backup_type \in BackupTypes, environ \in BackupEnvirons :
       \E r \in run_backup(World, backup_type, environ) :
          Commit(r, [Started("run_backup") EXCEPT !.prefix = backup_type, !.environ = environ,
                                                   !.exit = main_backup(r)])

RunRestore ==
    /\ ops = {}
    /\ \E encrypted_path \in Files(fs) \cup {Missing} :
       \E backup_type \in BackupTypes, environ \in RestoreEnvirons :
       \E r \in run_restore(World, encrypted_path, backup_type, environ) :
          Commit(r, [Started("run_restore") EXCEPT
                        !.path = encrypted_path, !.prefix = backup_type, !.environ = environ,
                        !.ok = r.ret, !.exit = main_restore(r)])

\* the command-line program: one backup or one restore run
Init == fs \in RunDirs /\ InitState

Next == Tick \/ RunBackup \/ RunRestore

Spec == Init /\ [][Next]_vars

\* the package's functions called directly: encrypt, then decrypt or sweep
InitLib == fs \in LibDirs /\ InitState

NextLib == Tick \/ CallEncrypt \/ CallDecrypt \/ CallCleanup \/ CallRestorePostgres

SpecLib == InitLib /\ [][NextLib]_vars

(***************************************************************************)
(* Two backup runs of the bot's database under way at once.  One step is    *)
(* one external command, one unlink or one reading of the clock; every      *)
(* command exits zero when the files it reads exist and non-zero when they  *)
(* do not, so that a failure here comes from the other run alone.           *)
(***************************************************************************)
At(p, pc) == conc.runs[p].pc = pc

Goto(p, pc) == [conc EXCEPT !.runs[p].pc = pc]

\* the bot writes to its database
ConcDbWrite ==
    /\ sqlite.live <= MaxWrites
    /\ sqlite' = [sqlite EXCEPT !.live = @ + 1]
    /\ UNCHANGED <<fs, pg, now, last, ops, conc>>

\* cli.py line 56
ConcStart ==
    \E p \in Procs :
        /\ At(p, "init")
        /\ conc' = [conc EXCEPT !.runs[p].pc = "sqlite3", !.runs[p].date_str = Strftime(now)]
        /\ UNCHANGED <<fs, sqlite, pg, now, last, ops>>

\* sqlite.py line 29: sqlite3 .backup /tmp/sqlite_backup.db
ConcSqliteBackup ==
    \E p \in Procs :
        /\ At(p, "sqlite3")
        /\ sqlite' = [sqlite EXCEPT !.tmp_backup = sqlite.live]
        /\ conc' = Goto(p, "cp")
        /\ UNCHANGED <<fs, pg, now, last, ops>>

\* sqlite.py lines 30-32: docker cp to backup_file, which is returned
ConcCopyOut ==
    \E p \in Procs :
        /\ At(p, "cp")
        /\ LET backup_file == Child(BACKUPS_DIR, S_sqlite_backup \o conc.runs[p].date_str \o S_db)
           IN  /\ fs' = FsPut(fs, backup_file, Data(sqlite.tmp_backup))
               /\ conc' = [conc EXCEPT !.runs[p].pc = "tar", !.runs[p].dump_file = backup_file]
        /\ UNCHANGED <<sqlite, pg, now, last, ops>>

\* archive.py lines 22-25 and 42: the paths, then tar
ConcTar ==
    \E p \in Procs :
        /\ At(p, "tar")
        /\ LET date_str == Strftime(now)
               dump_file == conc.runs[p].dump_file
               archive_path == Child(Parent(dump_file), ArchiveName(S_krisa_bot, date_str))
               encrypted_path == Child(Parent(dump_file), EncryptedName(S_krisa_bot, date_str))
               feasible == IsFile(fs, dump_file)
           IN  /\ fs' = IF feasible
                        THEN FsPut(fs, archive_path, TarOf(Name(dump_file), fs[Name(dump_file)]))
                        ELSE fs
               /\ conc' = [conc EXCEPT !.runs[p].pc = IF feasible THEN "gpg" ELSE "failed",
                                       !.runs[p].archive_date = date_str,
                                       !.runs[p].archive_path = archive_path,
                                       !.runs[p].encrypted_path = encrypted_path]
        /\ UNCHANGED <<sqlite, pg, now, last, ops>>

\* archive.py line 43: gpg -c -o encrypted_path archive_path
ConcGpg ==
    \E p \in Procs :
        /\ At(p, "gpg")
        /\ LET archive_path == conc.runs[p].archive_path
               encrypted_path == conc.runs[p].encrypted_path
           IN  IF IsFile(fs, archive_path)
               THEN LET c == GpgOf(K1, fs[Name(archive_path)])
                    IN  /\ fs' = FsPut(fs, encrypted_path, c)
                        /\ conc' = [conc EXCEPT !.runs[p].pc = "unlink_archive",
                                                !.writer = p, !.written = c]
               ELSE /\ fs' = fs
                    /\ conc' = Goto(p, "failed")
        /\ UNCHANGED <<sqlite, pg, now, last, ops>>

\* archive.py line 46: archive_path.unlink()
ConcUnlinkArchive ==
    \E p \in Procs :
        /\ At(p, "unlink_archive")
        /\ IF IsFile(fs, conc.runs[p].archive_path)
           THEN fs' = FsDel(fs, conc.runs[p].archive_path) /\ conc' = Goto(p, "unlink_dump")
           ELSE fs' = fs /\ conc' = Goto(p, "raised")
        /\ UNCHANGED <<sqlite, pg, now, last, ops>>

\* archive.py lines 47-50: dump_file.unlink(), then the return
ConcUnlinkDump ==
    \E p \in Procs :
        /\ At(p, "unlink_dump")
        /\ IF IsFile(fs, conc.runs[p].dump_file)
           THEN fs' = FsDel(fs, conc.runs[p].dump_file) /\ conc' = Goto(p, "archived")
           ELSE fs' = fs /\ conc' = Goto(p, "raised")
        /\ UNCHANGED <<sqlite, pg, now, last, ops>>

InitConc == fs = EmptyDir /\ InitState

NextConc ==
    \/ Tick
    \/ ConcDbWrite
    \/ ConcStart
    \/ ConcSqliteBackup
    \/ ConcCopyOut
    \/ ConcTar
    \/ ConcGpg
    \/ ConcUnlinkArchive
    \/ ConcUnlinkDump

SpecConc == InitConc /\ [][NextConc]_vars

(***************************************************************************)
(* Properties                                                               *)
(***************************************************************************)
Trace == {last.calls[i] : i \in DOMAIN last.calls}

Entered(fn) == FnCall(fn) \in Trace

Returned(fn, status) == FnRet(fn, status) \in Trace

ExtCalls == {c \in Trace : c.ext}

Ran(tool, status) == \E c \in ExtCalls : c.tool = tool /\ c.status = status

\* the name <prefix>-<DD-MM-YY>.tar.gz.gpg for the calendar date of clock value t
DatedName(prefix, t, ext) ==
    LET c == CivilFromDays(t.day)
    IN  prefix \o <<"-">>
        \o <<DigitChar(c.d \div 10), DigitChar(c.d % 10)>> \o <<"-">>
        \o <<DigitChar(c.m \div 10), DigitChar(c.m % 10)>> \o <<"-">>
        \o <<DigitChar((c.y % 100) \div 10), DigitChar(c.y % 10)>> \o ext

\* a decrypt of the artifact the preceding encrypt returned, under the same
\* passphrase, in which no external tool failed
RoundTripCase ==
    /\ last.op = "decrypt_archive"
    /\ last.prev.op = "create_encrypted_archive"
    /\ last.prev.exc = "none"
    /\ last.prev.ret # None
    /\ last.path = last.prev.ret
    /\ last.password = last.prev.password
    /\ \A c \in ExtCalls : c.status = "ok"

\* C1: decrypt_archive applied to the artifact create_encrypted_archive(D, P,
\* prefix) returned gives back a file whose content is the original content of
\* D, whatever else the artifact's directory held, when every external tool
\* succeeds.
C1_RoundTrip ==
    RoundTripCase =>
        /\ last.exc = "none"
        /\ last.ret # None
        /\ IsFile(fs, last.ret)
        /\ fs[Name(last.ret)] = last.prev.pre[Name(last.prev.path)]

\* an artifact create_encrypted_archive returned, and a later sweep with
\* retention_days > 0 that ran once the artifact's date was strictly before
\* now - retention_days days
SweepOwnCase ==
    /\ last.op = "cleanup_old_backups"
    /\ last.retention > 0
    /\ last.prev.op = "create_encrypted_archive"
    /\ last.prev.exc = "none"
    /\ last.prev.ret # None
    /\ Before([day |-> last.prev.end.day, tod |-> 0], MinusDays(last.end, last.retention))

\* C2: an artifact created by create_encrypted_archive is deleted by a later
\* cleanup_old_backups call with retention_days > 0 that runs once the
\* artifact's date is strictly before now - retention_days days.
C2_OwnArtifactSwept == SweepOwnCase => ~IsFile(fs, last.prev.ret)

\* a sweep with retention_days > 0 over a directory holding the date-named
\* artifact of the day exactly retention_days (or one more) before today
BoundaryCase ==
    /\ last.op = "cleanup_old_backups"
    /\ last.retention > 0
    /\ \/ Legacy([day |-> last.end.day - last.retention, tod |-> 0]) \in DOMAIN last.pre
       \/ Legacy([day |-> last.end.day - last.retention - 1, tod |-> 0]) \in DOMAIN last.pre

\* C3: for every retention_days > 0 and every time of day of the sweep, the
\* artifact dated exactly retention_days days before today is retained and the
\* one dated retention_days + 1 days before today is deleted.
C3_RetentionBoundary ==
    BoundaryCase =>
        LET onCutoff == Legacy([day |-> last.end.day - last.retention, tod |-> 0])
            older == Legacy([day |-> last.end.day - last.retention - 1, tod |-> 0])
        IN  /\ onCutoff \in DOMAIN last.pre => onCutoff \in DOMAIN fs
            /\ older \in DOMAIN last.pre => older \notin DOMAIN fs

\* a krisa-bot restore run on a krisa-bot artifact in which decrypt returned
\* the dump file it extracted and no external command failed
SqliteRestoreCase ==
    /\ last.op = "run_restore"
    /\ last.prefix = S_krisa_bot
    /\ StartsWith(Name(last.path), S_krisa_bot)
    /\ Returned("decrypt_archive", "value")
    /\ Name(last.locals.dump_file) = last.pre[Name(last.path)].member
    /\ \A c \in ExtCalls : c.status = "ok"

\* C4: in a krisa-bot restore run whose decrypt succeeds and whose external
\* commands all succeed, the adapter copies the recovered dump into the
\* container, replaces the live database file with it, and run_restore
\* reports success.
C4_SqliteRestoreSucceeds ==
    SqliteRestoreCase =>
        /\ Ran("docker-cp-in", "ok")
        /\ Ran("docker-exec-mv", "ok")
        /\ sqlite.live = last.pre[Name(last.path)].v
        /\ last.ok

\* C5: in every restore run in which decrypt returned a dump file, that file
\* no longer exists when run_restore ends, whether the adapter's restore
\* succeeded, returned failure or raised.
C5_RestoreCleanupAlways ==
    (last.op = "run_restore" /\ Returned("decrypt_archive", "value")) =>
        ~IsFile(fs, last.locals.dump_file)

\* C6: whenever decrypt_archive raises in a restore run, the adapter's restore
\* function is never entered in that run and run_restore returns False.
C6_DecryptFailureFatal ==
    (last.op = "run_restore" /\ Returned("decrypt_archive", "raised")) =>
        /\ ~Entered("restore_sqlite")
        /\ ~Entered("restore_postgres")
        /\ ~last.ok

C6_Witness ==
    /\ last.op = "run_restore"
    /\ Returned("decrypt_archive", "raised")
    /\ Ran("gpg-d", "nonzero")

\* the compress stage or the cipher stage of the latest encrypt exited non-zero
EncryptStageFailed ==
    /\ last.op = "create_encrypted_archive"
    /\ (Ran("tar-c", "nonzero") \/ Ran("gpg-c", "nonzero"))

C8_EncryptSuccess ==
    (last.op = "create_encrypted_archive" /\ last.exc = "none" /\ last.ret # None) =>
        LET out == DatedName(last.prefix, last.end, S_tar_gz_gpg)
            tgz == DatedName(last.prefix, last.end, S_tar_gz)
        IN  /\ last.ret = Child(Parent(last.path), out)
            /\ out \in DOMAIN fs
            /\ fs[out].kind = "gpg"
            /\ fs[out].key = last.password
            /\ fs[out].v = last.pre[Name(last.path)].v
            /\ tgz \notin DOMAIN fs
            /\ ~IsFile(fs, last.path)

C8_Witness ==
    /\ last.op = "create_encrypted_archive"
    /\ last.exc = "none"
    /\ last.ret # None
    /\ last.end.day > last.start.day

SecretMissing(environ) ==
    \/ environ.BOT_TOKEN \in {Unset, <<>>}
    \/ environ.ADMIN_ID \in {Unset, <<>>}
    \/ environ.BACKUP_PASSWORD \in {Unset, <<>>}

NothingDone ==
    /\ fs = last.pre
    /\ sqlite = last.predb.sqlite
    /\ pg = last.predb.pg
    /\ ExtCalls = {}

\* C9: a backup run started with any of the three secrets absent, and a
\* restore run started with the passphrase absent, fails having changed no
\* file and no datastore and having run no external process or upload.
C9_MissingSecretGuard ==
    /\ (last.op = "run_backup" /\ SecretMissing(last.environ)) =>
          /\ NothingDone
          /\ \/ last.exc # "none"
             \/ last.log = <<"error: missing required env vars">>
    /\ (last.op = "run_restore" /\ last.environ.BACKUP_PASSWORD \in {Unset, <<>>}) =>
          /\ NothingDone
          /\ ~last.ok
          /\ last.log = <<"error: missing required env var">>

C9_Witness ==
    /\ last.op = "run_backup"
    /\ last.environ.BOT_TOKEN = TOKEN
    /\ last.environ.ADMIN_ID = ADMIN
    /\ last.environ.BACKUP_PASSWORD = <<>>
    /\ last.log = <<"error: missing required env vars">>

\* a backup run whose encrypt returned an artifact and whose notification
\* then failed (returned False or raised)
NotifyFailedCase ==
    /\ last.op = "run_backup"
    /\ Returned("create_encrypted_archive", "value")
    /\ (Returned("send_document", "none") \/ Returned("send_document", "raised"))

\* C10: when create_encrypted_archive succeeded and the notification then
\* fails in any way, the artifact still exists afterwards and the retention
\* sweep is still invoked in that run.
C10_NotifyFailureNonFatal ==
    NotifyFailedCase =>
        /\ IsFile(fs, last.locals.archive_path)
        /\ Entered("cleanup_old_backups")

\* a backup run whose adapter dump returned None
DumpFailedCase ==
    /\ last.op = "run_backup"
    /\ (Returned("backup_sqlite", "none") \/ Returned("backup_postgres", "none"))

\* the archive files (intermediate .tar.gz or encrypted .tar.gz.gpg) of a directory
ArchiveFiles(f) == {n \in DOMAIN f : EndsWith(n, S_tar_gz) \/ EndsWith(n, S_tar_gz_gpg)}

\* C11: when the adapter's dump returns None, the backup run ends without
\* entering create_encrypted_archive, send_document or cleanup_old_backups,
\* and no archive file (.tar.gz or .tar.gz.gpg) is created or changed.
C11_DumpFailureAborts ==
    DumpFailedCase =>
        /\ ~Entered("create_encrypted_archive")
        /\ ~Entered("send_document")
        /\ ~Entered("cleanup_old_backups")
        /\ \A n \in ArchiveFiles(fs) : n \in DOMAIN last.pre /\ fs[n] = last.pre[n]

C11_Witness ==
    /\ DumpFailedCase
    /\ Ran("docker-exec-pg_dump", "nonzero")
    /\ ArchiveFiles(last.pre) # {}
    /\ last.exc = "none"

\* C12: decrypt_archive called on any path that does not end in .tar.gz.gpg
\* raises ValueError (the format error, distinct from CalledProcessError)
\* before any external command is run.
C12_ExtensionValidation ==
    (last.op = "decrypt_archive" /\ ~EndsWith(Name(last.path), S_tar_gz_gpg)) =>
        /\ last.exc = "ValueError"
        /\ ExtCalls = {}

\* decrypt_archive called on an encrypted file with a passphrase other than
\* the one it was encrypted under
WrongKeyCase ==
    /\ last.op = "decrypt_archive"
    /\ IsFile(last.pre, last.path)
    /\ last.pre[Name(last.path)].kind = "gpg"
    /\ last.pre[Name(last.path)].key # last.password

\* C13: decrypt_archive called with a passphrase different from the one used
\* at encrypt always raises and never returns a dump file path.
C13_WrongPassphrase ==
    WrongKeyCase => (last.exc # "none" /\ last.ret = None)

C13_Witness ==
    /\ WrongKeyCase
    /\ last.prev.op = "create_encrypted_archive"
    /\ last.prev.ret = last.path
    /\ last.prev.password # last.password
    /\ Ran("gpg-d", "nonzero")
    /\ last.exc = "CalledProcessError"

\* a *.tar.gz.gpg name whose token before the first "." is not a DD-MM-YY date
Malformed(n) == EndsWith(n, S_tar_gz_gpg) /\ ~Strptime(SplitFirst(n, ".")).ok

\* a *.tar.gz.gpg name dated more than retention days before the day the sweep started
LongExpired(n) ==
    /\ EndsWith(n, S_tar_gz_gpg)
    /\ Strptime(SplitFirst(n, ".")).ok
    /\ Strptime(SplitFirst(n, ".")).day < last.start.day - last.retention

\* C14: whatever retention_days is, a *.tar.gz.gpg file whose leading token
\* does not parse as DD-MM-YY still exists unchanged after cleanup_old_backups,
\* is not counted (the count is the number of files removed), and does not
\* keep the sweep from removing the expired files beside it.
C14_MalformedSkipped ==
    last.op = "cleanup_old_backups" =>
        /\ last.exc = "none"
        /\ \A n \in DOMAIN last.pre :
              Malformed(n) => (n \in DOMAIN fs /\ fs[n] = last.pre[n])
        /\ last.count = Cardinality(DOMAIN last.pre \ DOMAIN fs)
        /\ last.retention > 0 => \A n \in DOMAIN last.pre : LongExpired(n) => n \notin DOMAIN fs

C14_Witness ==
    /\ last.op = "cleanup_old_backups"
    /\ last.retention = 1
    /\ Foreign \in DOMAIN last.pre
    /\ Foreign \in DOMAIN fs
    /\ \E n \in DOMAIN last.pre : LongExpired(n) /\ n \notin DOMAIN fs
    /\ last.count = 1

\* C15: cleanup_old_backups with retention_days <= 0 returns 0 and leaves
\* every file of the directory unchanged, whatever the names and dates.
C15_DisabledRetention ==
    (last.op = "cleanup_old_backups" /\ last.retention <= 0) =>
        /\ last.exc = "none"
        /\ last.count = 0
        /\ fs = last.pre

C15_Witness ==
    /\ last.op = "cleanup_old_backups"
    /\ last.retention = 0
    /\ last.count = 0
    /\ fs = last.pre
    /\ last.start.tod > 0
    /\ \E n \in DOMAIN fs : Strptime(SplitFirst(n, ".")).ok /\ EndsWith(n, S_tar_gz_gpg)

\* a restore run whose pg_restore exited non-zero
ReplayFailedCase ==
    /\ last.op = "run_restore"
    /\ Ran("docker-exec-pg_restore", "nonzero")

\* C16: when pg_restore exits non-zero, restore_postgres returns True only if
\* the errors of its stderr are all of the benign "already exists" / "does
\* not exist" kind; any other error in stderr makes it return False.
C16_RestoreErrorTolerance ==
    ReplayFailedCase =>
        /\ Returned("restore_postgres", "value") \/ Returned("restore_postgres", "none")
        /\ Returned("restore_postgres", "value") => "ERROR: other" \notin last.locals.stderr
        /\ "ERROR: other" \in last.locals.stderr => Returned("restore_postgres", "none")

\* both stages of a restore run returned normally with a result
RestoreStagesSucceeded ==
    /\ Returned("decrypt_archive", "value")
    /\ (Returned("restore_sqlite", "value") \/ Returned("restore_postgres", "value"))

\* C17: the restore command exits non-zero whenever a stage of the run fails
\* (missing passphrase, decrypt failure, adapter restore failure), and
\* run_restore returns True only when decrypt_archive and the adapter's
\* restore both succeeded.
C17_RestoreExitStatus ==
    last.op = "run_restore" =>
        /\ last.ok => (Truthy(last.environ.BACKUP_PASSWORD) /\ RestoreStagesSucceeded)
        /\ ~Truthy(last.environ.BACKUP_PASSWORD) => last.exit # 0
        /\ ~RestoreStagesSucceeded => last.exit # 0
        /\ last.exit = 0 => last.ok

C17_Witness ==
    /\ last.op = "run_restore"
    /\ Returned("decrypt_archive", "value")
    /\ Returned("restore_postgres", "none")
    /\ ~last.ok
    /\ last.exit = 1

\* a backup run one of whose stages returned its failure value or raised
BackupStageFailed ==
    /\ last.op = "run_backup"
    /\ \/ \E fn \in {"backup_sqlite", "backup_postgres", "create_encrypted_archive",
                     "send_document"} : Returned(fn, "none") \/ Returned(fn, "raised")
       \/ Returned("cleanup_old_backups", "raised")

ErrorLogged ==
    \E i \in DOMAIN last.log :
        last.log[i] \in {"error: dump creation failed", "error: backup failed",
                         "error: archive creation failed", "error: telegram api error",
                         "error: failed to send to telegram"}

\* BACKUP_RETENTION_DAYS is unset or a string of decimal digits
RetentionIsInteger ==
    LET s == last.environ.BACKUP_RETENTION_DAYS
    IN  s = Unset \/ (Len(s) > 0 /\ \A i \in 1..Len(s) : IsDigit(s[i]))

\* C18 as stated: a backup run always completes with exit status zero: a
\* failure of the dump, archive, notification or sweep stage (an exception
\* raised inside a stage included) is logged and never leaves run_backup.
C18_BackupExitZero ==
    last.op = "run_backup" =>
        /\ last.exit = 0
        /\ last.exc = "none"
        /\ BackupStageFailed => ErrorLogged

\* C18 amended: a backup run whose BACKUP_RETENTION_DAYS is unset or an
\* integer completes with exit status zero, every stage failure logged and
\* none leaving run_backup; a BACKUP_RETENTION_DAYS that is not an integer
\* raises ValueError before the guard and before any stage, and the command
\* exits non-zero.
C18_BackupExitZeroValidRetention ==
    last.op = "run_backup" =>
        /\ RetentionIsInteger =>
              /\ last.exit = 0
              /\ last.exc = "none"
              /\ BackupStageFailed => ErrorLogged
        /\ ~RetentionIsInteger =>
              /\ last.exit = 1
              /\ last.exc = "ValueError"
              /\ last.calls = <<FnCall("run_backup")>>
              /\ fs = last.pre

C18_Witness ==
    /\ last.op = "run_backup"
    /\ RetentionIsInteger
    /\ Returned("send_document", "raised")
    /\ ErrorLogged
    /\ last.exit = 0

\* a direct call of create_encrypted_archive or decrypt_archive
CodecCall == last.op \in {"create_encrypted_archive", "decrypt_archive"}

StageOf(c) ==
    IF c.status # "enter" THEN 0
    ELSE IF c.tool \in {"backup_sqlite", "backup_postgres"} THEN 1
    ELSE IF c.tool = "create_encrypted_archive" THEN 2
    ELSE IF c.tool = "send_document" THEN 3
    ELSE IF c.tool = "cleanup_old_backups" THEN 4
    ELSE 0

EncryptFailedInRun ==
    /\ last.op = "run_backup"
    /\ (Returned("create_encrypted_archive", "none") \/ Returned("create_encrypted_archive", "raised"))

\* C20: in every backup run the stages are entered only in the order
\* Dumping, Archiving, Notifying, Sweeping, each at most once; Notifying and
\* Sweeping are entered only after create_encrypted_archive returned an
\* artifact; when it fails the run ends with no notification, no sweep and
\* the dump file still on disk.
C20_StageOrdering ==
    last.op = "run_backup" =>
        /\ \A i, j \in DOMAIN last.calls :
              (i < j /\ StageOf(last.calls[i]) > 0 /\ StageOf(last.calls[j]) > 0) =>
                  StageOf(last.calls[i]) < StageOf(last.calls[j])
        /\ \A j \in DOMAIN last.calls :
              StageOf(last.calls[j]) = 2 =>
                  \E i \in 1..(j - 1) : \E fn \in {"backup_sqlite", "backup_postgres"} :
                      last.calls[i] = FnRet(fn, "value")
        /\ \A j \in DOMAIN last.calls :
              StageOf(last.calls[j]) \in {3, 4} =>
                  \E i \in 1..(j - 1) : last.calls[i] = FnRet("create_encrypted_archive", "value")
        /\ EncryptFailedInRun =>
              /\ ~Entered("send_document")
              /\ ~Entered("cleanup_old_backups")
              /\ IsFile(fs, last.locals.dump_file)

C20_Witness ==
    /\ last.op = "run_backup"
    /\ Returned("create_encrypted_archive", "value")
    /\ Returned("send_document", "value")
    /\ Returned("cleanup_old_backups", "value")
    /\ last.log = <<"info: backup completed successfully">>

C20_WitnessEncryptFailed ==
    /\ EncryptFailedInRun
    /\ Ran("gpg-c", "nonzero")
    /\ IsFile(fs, last.locals.dump_file)

\* the external commands the four adapter calls run
AdapterTools ==
    {"docker-exec-sqlite3-backup", "docker-cp-out", "docker-cp-in", "docker-exec-mv",
     "docker-exec-pg_dump", "docker-exec-psql-terminate", "docker-exec-psql-drop-schema",
     "docker-exec-pg_restore"}

AdapterFns == {"backup_postgres", "restore_postgres", "backup_sqlite", "restore_sqlite"}

\* C21: in every adapter call (backup_postgres, restore_postgres,
\* backup_sqlite, restore_sqlite) an external command that exits non-zero is
\* the last command of that call, and the call then returns its failure value
\* (None or False).
C21_AdapterFailurePolicy ==
    \A i \in DOMAIN last.calls :
        (last.calls[i].ext /\ last.calls[i].tool \in AdapterTools
                           /\ last.calls[i].status = "nonzero") =>
            /\ i + 1 \in DOMAIN last.calls
            /\ \E fn \in AdapterFns : last.calls[i + 1] = FnRet(fn, "none")

\* the positions of a command in the trace of the latest call
Positions(tool) == {i \in DOMAIN last.calls : last.calls[i].ext /\ last.calls[i].tool = tool}

\* C22: restore_postgres runs the session termination, then the schema
\* drop-and-recreate, then the dump replay, in that order and each at most
\* once; the replay is started only after the schema wipe exited zero; a
\* missing dump file makes the call return False before any command runs.
C22_RestoreOrdered ==
    last.op = "restore_postgres" =>
        LET term == Positions("docker-exec-psql-terminate")
            wipe == Positions("docker-exec-psql-drop-schema")
            replay == Positions("docker-exec-pg_restore")
        IN  /\ Cardinality(term) <= 1 /\ Cardinality(wipe) <= 1 /\ Cardinality(replay) <= 1
            /\ \A j \in wipe : \E i \in term : i < j
            /\ \A k \in replay : \E j \in wipe : j < k /\ last.calls[j].status = "ok"
            /\ ExtCalls \subseteq {last.calls[i] : i \in term \cup wipe \cup replay}
            /\ ~Exists(last.pre, last.path) => (ExtCalls = {} /\ ~last.ok /\ last.exc = "none")

C22_Witness ==
    /\ last.op = "restore_postgres"
    /\ Ran("docker-exec-psql-terminate", "ok")
    /\ Ran("docker-exec-psql-drop-schema", "ok")
    /\ Ran("docker-exec-pg_restore", "ok")
    /\ last.ok
    /\ pg.data = last.pre[Name(last.path)].v

C22_WitnessMissing ==
    /\ last.op = "restore_postgres"
    /\ last.path = MissingDump
    /\ ~last.ok

\* a decrypt_archive call whose gpg and tar commands both exited zero
ExtractedCase ==
    /\ last.op = "decrypt_archive"
    /\ Ran("gpg-d", "ok")
    /\ Ran("tar-x", "ok")

DumpNames(f) == {n \in DOMAIN f : EndsWith(n, S_dump) \/ EndsWith(n, S_db)}

\* C23: after a successful decrypt and extraction the intermediate .tar.gz
\* container is deleted; if the extraction directory then holds no file with
\* suffix .dump or .db, decrypt_archive raises FileNotFoundError and returns
\* no path, and otherwise it returns one of those files.
C23_ExtractionOutcome ==
    ExtractedCase =>
        /\ WithoutSuffix(Name(last.path)) \notin DOMAIN fs
        /\ DumpNames(fs) = {} => (last.exc = "FileNotFoundError" /\ last.ret = None)
        /\ DumpNames(fs) # {} =>
              (last.exc = "none" /\ last.ret # None /\ Name(last.ret) \in DumpNames(fs))

C23_Witness ==
    /\ ExtractedCase
    /\ DumpNames(fs) = {}
    /\ S_notadate \in DOMAIN fs
    /\ last.exc = "FileNotFoundError"

\* C24: cleanup_old_backups deletes only files named *.tar.gz.gpg directly
\* in the given directory (no file of a subdirectory, no file of another
\* name), changes no file it keeps, and returns the number of files deleted.
C24_SweepScopeAndCount ==
    last.op = "cleanup_old_backups" =>
        /\ DOMAIN fs \subseteq DOMAIN last.pre
        /\ \A n \in DOMAIN fs : fs[n] = last.pre[n]
        /\ \A n \in DOMAIN last.pre \ DOMAIN fs :
              /\ EndsWith(n, S_tar_gz_gpg)
              /\ \A i \in 1..Len(n) : n[i] # "/"
        /\ last.count = Cardinality(DOMAIN last.pre \ DOMAIN fs)

C24_Witness ==
    /\ last.op = "cleanup_old_backups"
    /\ Nested \in DOMAIN last.pre /\ Nested \in DOMAIN fs
    /\ Legacy(DayBefore(2)) \in DOMAIN last.pre /\ Legacy(DayBefore(2)) \notin DOMAIN fs
    /\ PostgresDump(Day0) \in DOMAIN fs
    /\ last.count >= 1

\* C25: a dump file created by a backup run does not outlive the run unless
\* the archive stage failed: when the run ends, every .dump / .db file of the
\* directory was there before the run and is unchanged (the run's dump was
\* deleted once archived, and the file of a failed dump stage was cleaned up).
C25_DumpOwnership ==
    (last.op = "run_backup" /\ ~EncryptFailedInRun) =>
        \A n \in DumpNames(fs) : n \in DOMAIN last.pre /\ fs[n] = last.pre[n]

\* both concurrent runs have left their archive stage
BothEnded == \A p \in Procs : conc.runs[p].pc \in {"archived", "failed", "raised"}

\* both runs read the same date, in run_backup and in create_encrypted_archive
SameDay ==
    \A p, q \in Procs :
        /\ conc.runs[p].date_str = conc.runs[q].date_str
        /\ conc.runs[p].archive_date = conc.runs[q].archive_date

\* C26: same-day concurrent backup runs of the same dataset share the dump
\* file path, the container path and the artifact path, and under every
\* interleaving both runs complete their archive stage and the artifact left
\* on disk is the one written last.
C26_ConcurrentLastWriterWins ==
    (BothEnded /\ SameDay) =>
        /\ \A p, q \in Procs :
              /\ conc.runs[p].dump_file = conc.runs[q].dump_file
              /\ conc.runs[p].archive_path = conc.runs[q].archive_path
              /\ conc.runs[p].encrypted_path = conc.runs[q].encrypted_path
        /\ \A p \in Procs : conc.runs[p].pc = "archived"
        /\ \A p \in Procs :
              /\ IsFile(fs, conc.runs[p].encrypted_path)
              /\ fs[Name(conc.runs[p].encrypted_path)] = conc.written

\* C27: when run_restore ends, by success or by any failure, neither the
\* decrypted .tar.gz container nor any file extracted from the archive is on
\* disk: every file of the directory was there before the run, unchanged.
C27_NoDecryptedMaterialLeft ==
    last.op = "run_restore" =>
        \A n \in DOMAIN fs : n \in DOMAIN last.pre /\ fs[n] = last.pre[n]

\* C28: the file decrypt_archive returns in a restore run, which run_restore
\* passes to the adapter and deletes, is the file extracted from the supplied
\* archive; a .dump or .db file that was in the directory before the run is
\* not the one returned and is still there, unchanged, when the run ends.
C28_ReturnedFileIsExtracted ==
    (last.op = "run_restore" /\ Returned("decrypt_archive", "value")) =>
        LET member == last.pre[Name(last.path)].member
        IN  /\ Name(last.locals.dump_file) = member
            /\ \A n \in DumpNames(last.pre) \ {member} :
                  n \in DOMAIN fs /\ fs[n] = last.pre[n]

\* C29: in a backup run whose archive stage returned an artifact, the date in
\* the dump file name and in the notification caption (run_backup's date_str)
\* is the date in the artifact file name, however far the clock advanced
\* between the start of the run and the encrypt step.
C29_DateConsistency ==
    (last.op = "run_backup" /\ Returned("create_encrypted_archive", "value")) =>
        LET d == last.locals.date_str
        IN  /\ EndsWith(Name(last.locals.dump_file), d \o S_dump)
                 \/ EndsWith(Name(last.locals.dump_file), d \o S_db)
            /\ \A c \in ExtCalls :
                  c.tool = "http-post-sendDocument" => EndsWith(c.argv[2], <<" ">> \o d)
            /\ Name(last.locals.archive_path) = last.prefix \o S_dash \o d \o S_tar_gz_gpg

====
